---- MODULE Spec2Model ----
(***************************************************************************)
(* Model of the query-input-to-results pipeline of src/src/App.tsx: the    *)
(* React component App with its state hooks, its two refs, the debounced   *)
(* suggestion effect, the explicit search, the keyboard and mouse handlers *)
(* and the network calls that are in flight.                               *)
(*                                                                         *)
(* Strings are sequences of one-character strings, so that trim() is       *)
(* computed.  A suggestion is modelled by its text (its score is never     *)
(* read by the component) and a search hit by its _id.                     *)
(*                                                                         *)
(* The component runs on a single-threaded event loop: every handler,      *)
(* together with the re-render and the effect run that it causes, is one   *)
(* atomic step; timer callbacks and promise continuations are steps of     *)
(* their own.                                                              *)
(***************************************************************************)
EXTENDS Integers, Sequences, FiniteSets

(* ------------------------------ bounds --------------------------------- *)

\* largest number of suggest calls in flight at once
MaxSuggestCalls == 2

\* largest number of search calls in flight at once
MaxSearchCalls == 2

\* largest number of network calls, of both kinds, in flight at once
MaxInFlight == 3

\* largest number of setTimeout timers pending at once
MaxTimers == 2

\* the texts given to truncateText are up to this much longer than maxLength
MaxExtra == 4

(* --------------------------- value universes --------------------------- *)

SP == " "

\* the texts the user can have in the input box
InputValues == { <<>>, <<SP>>, <<"a">>, <<"b">> }

\* the suggestion lists (texts only) the backend can answer with
SuggestReplies ==
  { <<>>, << <<"a">>, <<"b">> >>, << <<SP>> >> }

\* the search responses {hits, took} the backend can answer with
SearchReplies ==
  { [hits |-> <<>>,  took |-> 1],
    [hits |-> <<1>>, took |-> 2] }

\* the value of a state hook or ref that holds null / undefined
Null == "null"

\* searchStats === null
NoStats == [took |-> 0, count |-> 0, present |-> FALSE]

\* the fixed user-facing message of a failed search
SearchFailedMessage == "Search failed. Please try again."

\* debounceTimer.current === undefined
NoTimer == 0

\* the default value of truncateText's parameter maxLength
DefaultMaxLength == 500

\* the marker truncateText appends
Ellipsis == <<".", ".", ".">>

(* ------------------------------- state --------------------------------- *)

VARIABLES
  query,                    \* useState('')
  suggestions,              \* useState<Suggestion[]>([])
  results,                  \* useState<SearchHit[]>([])
  loading,                  \* useState(false)
  showSuggestions,          \* useState(false)
  selectedSuggestionIndex,  \* useState(-1)
  searchStats,              \* useState<{took, count} | null>(null)
  error,                    \* useState<string | null>(null)
  debounceTimer,            \* useRef: id of the timer set last
  searchPerformed,          \* useRef(false)
  timers,                   \* pending setTimeout callbacks: [id, query]
  suggestCalls,             \* fetchSuggestions calls in flight, in issue order
  searchCalls,              \* fetchSearchResults calls in flight, in issue order
  mounted,                  \* the component is mounted
  ev,                       \* the callback that ran last: its kind, the
                            \* search response it received, whether it
                            \* cancelled a pending timer, whether the
                            \* dropdown was shown and whether an error
                            \* message was set when it ran
  fetchesSinceEdit,         \* suggest calls issued since the query last changed
  reentrant,                \* the search started last found another in flight
  staleCalls,               \* how many of the suggest calls in flight (the
                            \* oldest ones) were issued before a call whose
                            \* response has been applied
  text,                     \* a hit's content, the argument of truncateText
  truncated                 \* the results of truncateText applied to text
                            \* and then to its own result

appvars == << query, suggestions, results, loading, showSuggestions,
              selectedSuggestionIndex, searchStats, error, searchPerformed >>

vars == << query, suggestions, results, loading, showSuggestions,
           selectedSuggestionIndex, searchStats, error, debounceTimer,
           searchPerformed, timers, suggestCalls, searchCalls, mounted,
           ev, fetchesSinceEdit, reentrant, staleCalls, text, truncated >>

\* the component's state as one value, for the handlers to transform
S ==
  [ query |-> query, suggestions |-> suggestions, results |-> results,
    loading |-> loading, showSuggestions |-> showSuggestions,
    selectedSuggestionIndex |-> selectedSuggestionIndex,
    searchStats |-> searchStats, error |-> error,
    debounceTimer |-> debounceTimer, searchPerformed |-> searchPerformed,
    timers |-> timers, suggestCalls |-> suggestCalls,
    searchCalls |-> searchCalls ]

Commit(s) ==
  /\ query' = s.query
  /\ suggestions' = s.suggestions
  /\ results' = s.results
  /\ loading' = s.loading
  /\ showSuggestions' = s.showSuggestions
  /\ selectedSuggestionIndex' = s.selectedSuggestionIndex
  /\ searchStats' = s.searchStats
  /\ error' = s.error
  /\ debounceTimer' = s.debounceTimer
  /\ searchPerformed' = s.searchPerformed
  /\ timers' = s.timers
  /\ suggestCalls' = s.suggestCalls
  /\ searchCalls' = s.searchCalls

(* ------------------------------ helpers -------------------------------- *)

RECURSIVE TrimStart(_)
TrimStart(t) ==
  IF t # <<>> /\ Head(t) = SP THEN TrimStart(Tail(t)) ELSE t

RECURSIVE TrimEnd(_)
TrimEnd(t) ==
  IF t # <<>> /\ t[Len(t)] = SP THEN TrimEnd(SubSeq(t, 1, Len(t) - 1)) ELSE t

\* String.prototype.trim
Trim(t) == TrimEnd(TrimStart(t))

\* the sequence q without its i-th element
RemoveAt(q, i) == SubSeq(q, 1, i - 1) \o SubSeq(q, i + 1, Len(q))

\* a clearTimeout that cancels nothing
ClearTimeout_NoOp(ts, id) == ts

\* clearTimeout(id): a no-op for an id that is not pending
ClearTimeout(ts, id) == { t \in ts : t.id # id }

\* setTimeout returns an id no pending timer has.  The component uses an id
\* only as the argument of clearTimeout, so the ids of timers that fired or
\* were cleared are handed out again.
NewTimerId(ts) ==
  CHOOSE i \in 1..(Cardinality(ts) + 1) : \A t \in ts : t.id # i

(* ------------------- the debounced-suggestions effect ------------------ *)

\* Effect without either clearTimeout: a superseded timer stays pending
Effect_NoClear(s) ==
  IF Len(Trim(s.query)) = 0
  THEN [s EXCEPT !.suggestions = <<>>,
                 !.showSuggestions = FALSE]
  ELSE LET id == NewTimerId(s.timers)
       IN  [s EXCEPT !.timers = @ \cup {[id |-> id, query |-> s.query]},
                     !.debounceTimer = id]

\* The body of useEffect(..., [query]), run after a render in which query
\* changed: the previous run's cleanup and the leading clearTimeout both clear
\* debounceTimer.current; then either the suggestions are cleared (the trimmed
\* query is empty) or a timer capturing this render's query is started.
Effect(s) ==
  LET cleared == IF s.debounceTimer # NoTimer
                 THEN ClearTimeout(s.timers, s.debounceTimer)
                 ELSE s.timers
  IN  IF Len(Trim(s.query)) = 0
      THEN [s EXCEPT !.timers = cleared,
                     !.suggestions = <<>>,
                     !.showSuggestions = FALSE]
      ELSE LET id == NewTimerId(cleared)
           IN  [s EXCEPT !.timers = cleared \cup {[id |-> id, query |-> s.query]},
                         !.debounceTimer = id]

\* an unmount that runs no cleanup
unmount_NoCleanup(s) == s

\* The unmount of the component: React runs the cleanup the last run of the
\* effect returned.  The run for a query with an empty trim returns before
\* the cleanup is created; every other run returns the cleanup, which clears
\* debounceTimer.current.
unmount(s) ==
  IF Len(Trim(s.query)) = 0
  THEN s
  ELSE IF s.debounceTimer # NoTimer
       THEN [s EXCEPT !.timers = ClearTimeout(@, s.debounceTimer)]
       ELSE s

\* The re-render after a handler: the effect depends on [query] only, so it
\* runs exactly when the handler left a query different from the one of the
\* previous render.
Render(prev, s) == IF s.query # prev.query THEN Effect(s) ELSE s

(* --------------------------- explicit search --------------------------- *)

\* performSearch whose guard tests the query without trimming it
performSearch_NoTrim(s, searchQuery) ==
  IF searchQuery = <<>>
  THEN s
  ELSE [s EXCEPT !.loading = TRUE,
                 !.error = Null,
                 !.showSuggestions = FALSE,
                 !.suggestions = <<>>,
                 !.selectedSuggestionIndex = -1,
                 !.searchPerformed = TRUE,
                 !.searchCalls = Append(@, searchQuery)]

\* performSearch whose guard comes after the resets of error and suggestions
performSearch_GuardLate(s, searchQuery) ==
  LET reset == [s EXCEPT !.error = Null,
                         !.showSuggestions = FALSE,
                         !.suggestions = <<>>,
                         !.selectedSuggestionIndex = -1]
  IN  IF Trim(searchQuery) = <<>>
      THEN reset
      ELSE [reset EXCEPT !.loading = TRUE,
                         !.searchPerformed = TRUE,
                         !.searchCalls = Append(@, searchQuery)]

\* performSearch that starts without setError(null)
performSearch_KeepError(s, searchQuery) ==
  IF Trim(searchQuery) = <<>>
  THEN s
  ELSE [s EXCEPT !.loading = TRUE,
                 !.showSuggestions = FALSE,
                 !.suggestions = <<>>,
                 !.selectedSuggestionIndex = -1,
                 !.searchPerformed = TRUE,
                 !.searchCalls = Append(@, searchQuery)]

\* performSearch up to its await: the guard, the state resets, the flag and
\* the fetchSearchResults call.
performSearch(s, searchQuery) ==
  IF Trim(searchQuery) = <<>>
  THEN s
  ELSE [s EXCEPT !.loading = TRUE,
                 !.error = Null,
                 !.showSuggestions = FALSE,
                 !.suggestions = <<>>,
                 !.selectedSuggestionIndex = -1,
                 !.searchPerformed = TRUE,
                 !.searchCalls = Append(@, searchQuery)]

\* the success branch that counts the hits of the previous render
searchResolved_StaleCount(s, data) ==
  [s EXCEPT !.results = data.hits,
            !.searchStats = [took |-> data.took, count |-> Len(s.results),
                             present |-> TRUE],
            !.loading = FALSE]

\* performSearch after its await, when fetchSearchResults resolved with data
searchResolved(s, data) ==
  [s EXCEPT !.results = data.hits,
            !.searchStats = [took |-> data.took, count |-> Len(data.hits),
                             present |-> TRUE],
            !.loading = FALSE]

\* the catch branch without the finally block: loading is left as it is
searchRejected_NoFinally(s) ==
  [s EXCEPT !.error = SearchFailedMessage]

\* performSearch after its await, when fetchSearchResults threw
searchRejected(s) ==
  [s EXCEPT !.error = SearchFailedMessage,
            !.loading = FALSE]

(* ----------------------------- the handlers ---------------------------- *)

\* handleInputChange that leaves searchPerformed.current alone
handleInputChange_KeepFlag(s, newValue) ==
  [s EXCEPT !.query = newValue,
            !.selectedSuggestionIndex = -1]

handleInputChange(s, newValue) ==
  [s EXCEPT !.query = newValue,
            !.selectedSuggestionIndex = -1,
            !.searchPerformed = FALSE]

\* handleSuggestionClick that searches for the query of the current render
handleSuggestionClick_SearchOld(s, suggestion) ==
  performSearch([s EXCEPT !.query = suggestion,
                          !.showSuggestions = FALSE],
                s.query)

handleSuggestionClick(s, suggestion) ==
  performSearch([s EXCEPT !.query = suggestion,
                          !.showSuggestions = FALSE],
                suggestion)

\* suggestions[selectedSuggestionIndex] is an element of the list
HasSelection(s) ==
  /\ s.selectedSuggestionIndex >= 0
  /\ s.selectedSuggestionIndex < Len(s.suggestions)

\* ArrowDown that stops at the last entry
ArrowDown_NoWrap(s) ==
  IF s.showSuggestions /\ Len(s.suggestions) > 0
  THEN [s EXCEPT !.selectedSuggestionIndex =
                    IF @ < Len(s.suggestions) - 1 THEN @ + 1 ELSE @]
  ELSE s

ArrowDown(s) ==
  IF s.showSuggestions /\ Len(s.suggestions) > 0
  THEN [s EXCEPT !.selectedSuggestionIndex =
                    IF @ < Len(s.suggestions) - 1 THEN @ + 1 ELSE 0]
  ELSE s

ArrowUp(s) ==
  IF s.showSuggestions /\ Len(s.suggestions) > 0
  THEN [s EXCEPT !.selectedSuggestionIndex =
                    IF @ > 0 THEN @ - 1 ELSE Len(s.suggestions) - 1]
  ELSE s

\* the Enter branch takes the highlighted suggestion when there is one
EnterCommits(s) == s.showSuggestions /\ HasSelection(s)

\* Enter that takes the first entry of a shown list when none is highlighted
Enter_CommitFirst(s) ==
  IF EnterCommits(s)
  THEN handleSuggestionClick(s, s.suggestions[s.selectedSuggestionIndex + 1])
  ELSE IF s.showSuggestions /\ Len(s.suggestions) > 0
       THEN handleSuggestionClick(s, s.suggestions[1])
       ELSE performSearch(s, s.query)

Enter(s) ==
  IF EnterCommits(s)
  THEN handleSuggestionClick(s, s.suggestions[s.selectedSuggestionIndex + 1])
  ELSE performSearch(s, s.query)

\* Escape that hides the list and keeps the highlight
Escape_KeepIndex(s) ==
  [s EXCEPT !.showSuggestions = FALSE]

Escape(s) ==
  [s EXCEPT !.showSuggestions = FALSE,
            !.selectedSuggestionIndex = -1]

onFocus(s) ==
  IF Len(s.suggestions) > 0
  THEN [s EXCEPT !.showSuggestions = TRUE]
  ELSE s

\* the timer callback without the searchPerformed check
timerFired_NoFlagCheck(s, t) ==
  [s EXCEPT !.timers = @ \ {t},
            !.suggestCalls = Append(@, t.query)]

\* the debounce timer callback up to its await: timer t fires
timerFired(s, t) ==
  LET gone == [s EXCEPT !.timers = @ \ {t}]
  IN  IF s.searchPerformed
      THEN gone
      ELSE [gone EXCEPT !.suggestCalls = Append(@, t.query)]

\* the timer callback after its await, when fetchSuggestions resolved
suggestResolved(s, list) ==
  [s EXCEPT !.suggestions = list,
            !.showSuggestions = TRUE]

\* a catch branch that drops the list on a failed suggest call
suggestRejected_DropList(s) ==
  [s EXCEPT !.suggestions = <<>>,
            !.showSuggestions = FALSE]

\* the timer callback after its await, when fetchSuggestions threw: the catch
\* branch logs the error and calls no setter
suggestRejected(s) == s

(* ------------------------------ rendering ------------------------------ *)

\* truncateText that makes the result, marker included, fit maxLength
truncateText_FitWithin(t, maxLength) ==
  IF Len(t) <= maxLength
  THEN t
  ELSE SubSeq(t, 1, maxLength - Len(Ellipsis)) \o Ellipsis

\* truncateText(text, maxLength): text.substring(0, maxLength) + '...' for a
\* text longer than maxLength
truncateText(t, maxLength) ==
  IF Len(t) <= maxLength
  THEN t
  ELSE SubSeq(t, 1, maxLength) \o Ellipsis

DropdownShown == showSuggestions /\ Len(suggestions) > 0
StatsShown    == searchStats.present
LoadingShown  == loading
ErrorShown    == error # Null
ResultsShown  == ~loading /\ Len(results) > 0

(* ------------------------- observation variables ----------------------- *)

\* ev.reply of a callback that carries no search response
NoReply == [hits |-> <<>>, took |-> 0]

\* The bookkeeping of a handler step that takes the state S to s1: which
\* callback ran and whether it cancelled a timer that was pending, whether
\* the query changed (the effect ran), whether a search was started and found
\* another one in flight.
ObserveStep(kind, reply, s1) ==
  /\ ev' = [kind |-> kind, reply |-> reply,
            cancelled |-> timers \ s1.timers # {},
            shown |-> DropdownShown, hadError |-> ErrorShown]
  /\ fetchesSinceEdit' = IF s1.query # query THEN 0 ELSE fetchesSinceEdit
  /\ reentrant' = IF Len(s1.searchCalls) > Len(searchCalls)
                  THEN Len(searchCalls) > 0
                  ELSE reentrant
  /\ UNCHANGED << text, truncated >>

\* the bookkeeping of a step that is not the settling of a suggest call
Observe(kind, reply, s1) ==
  /\ ObserveStep(kind, reply, s1)
  /\ UNCHANGED << staleCalls, mounted >>

\* The state after a continuation that only calls state setters: React drops
\* the updates of a component that is no longer mounted.
SetState(s0, s1) == IF mounted THEN s1 ELSE s0

\* The bookkeeping of the step in which the i-th suggest call in flight
\* settles.  When its response is applied, the calls issued before it that
\* are still in flight become stale; a call that leaves the list of calls
\* in flight shifts the ones behind it.
ObserveSuggest(kind, i, applied, s1) ==
  /\ ObserveStep(kind, NoReply, s1)
  /\ staleCalls' = IF i <= staleCalls THEN staleCalls - 1
                   ELSE IF applied THEN i - 1
                   ELSE staleCalls
  /\ UNCHANGED mounted

\* the caps on what is pending or in flight
WithinBounds(s1) ==
  /\ Cardinality(s1.timers) <= MaxTimers
  /\ Len(s1.suggestCalls) <= MaxSuggestCalls
  /\ Len(s1.searchCalls) <= MaxSearchCalls
  /\ Len(s1.suggestCalls) + Len(s1.searchCalls) <= MaxInFlight

(* ------------------------------- actions ------------------------------- *)

AppInit ==
  /\ query = <<>>
  /\ suggestions = <<>>
  /\ results = <<>>
  /\ loading = FALSE
  /\ showSuggestions = FALSE
  /\ selectedSuggestionIndex = -1
  /\ searchStats = NoStats
  /\ error = Null
  /\ debounceTimer = NoTimer
  /\ searchPerformed = FALSE
  /\ timers = {}
  /\ suggestCalls = <<>>
  /\ searchCalls = <<>>
  /\ mounted = TRUE
  /\ ev = [kind |-> "mount", reply |-> NoReply, cancelled |-> FALSE,
           shown |-> FALSE, hadError |-> FALSE]
  /\ fetchesSinceEdit = 0
  /\ reentrant = FALSE
  /\ staleCalls = 0

\* the component after its mount, with no hit content rendered yet
Init ==
  /\ AppInit
  /\ text = <<>>
  /\ truncated = <<>>

\* the user edits the text of the input box (onChange fires only for a value
\* that differs from the one shown)
InputChange ==
  \E newValue \in InputValues \ {query} :
    LET s1 == Render(S, handleInputChange(S, newValue))
    IN  /\ mounted
        /\ WithinBounds(s1)
        /\ Commit(s1)
        /\ Observe("input", NoReply, s1)

KeyArrowDown ==
  LET s1 == Render(S, ArrowDown(S))
  IN  mounted /\ Commit(s1) /\ Observe("arrowDown", NoReply, s1)

KeyArrowUp ==
  LET s1 == Render(S, ArrowUp(S))
  IN  mounted /\ Commit(s1) /\ Observe("arrowUp", NoReply, s1)

KeyEnter ==
  LET s1 == Render(S, Enter(S))
  IN  /\ mounted
      /\ WithinBounds(s1)
      /\ Commit(s1)
      /\ Observe(IF EnterCommits(S) THEN "enterCommit" ELSE "enterSearch",
                 NoReply, s1)

KeyEscape ==
  LET s1 == Render(S, Escape(S))
  IN  mounted /\ Commit(s1) /\ Observe("escape", NoReply, s1)

\* the user clicks the i-th entry of the dropdown, which is rendered only
\* while showSuggestions holds and the list is not empty
SuggestionClick ==
  /\ mounted
  /\ DropdownShown
  /\ \E i \in 1..Len(suggestions) :
       LET s1 == Render(S, handleSuggestionClick(S, suggestions[i]))
       IN  /\ WithinBounds(s1)
           /\ Commit(s1)
           /\ Observe("click", NoReply, s1)

InputFocus ==
  LET s1 == Render(S, onFocus(S))
  IN  mounted /\ Commit(s1) /\ Observe("focus", NoReply, s1)

\* a pending timer's quiet period elapses and its callback runs
TimerFire ==
  \E t \in timers :
    LET s1 == timerFired(S, t)
    IN  /\ WithinBounds(s1)
        /\ Commit(s1)
        /\ ev' = [kind |-> IF Len(s1.suggestCalls) > Len(suggestCalls)
                           THEN "timerFetch" ELSE "timerSkip",
                  reply |-> NoReply, cancelled |-> FALSE,
                  shown |-> DropdownShown, hadError |-> ErrorShown]
        /\ fetchesSinceEdit' = fetchesSinceEdit
                                 + Len(s1.suggestCalls) - Len(suggestCalls)
        /\ UNCHANGED << mounted, reentrant, staleCalls, text, truncated >>

\* the i-th suggest call in flight resolves with a list
SuggestSuccess ==
  \E i \in 1..Len(suggestCalls), list \in SuggestReplies :
    LET gone == [S EXCEPT !.suggestCalls = RemoveAt(@, i)]
        s1 == Render(S, SetState(gone, suggestResolved(gone, list)))
    IN  Commit(s1) /\ ObserveSuggest("suggestOk", i, mounted, s1)

\* the i-th suggest call in flight fails (non-2xx status or exception)
SuggestFailure ==
  \E i \in 1..Len(suggestCalls) :
    LET gone == [S EXCEPT !.suggestCalls = RemoveAt(@, i)]
        s1 == Render(S, SetState(gone, suggestRejected(gone)))
    IN  Commit(s1) /\ ObserveSuggest("suggestFail", i, FALSE, s1)

\* the i-th search call in flight resolves with data
SearchSuccess ==
  \E i \in 1..Len(searchCalls), data \in SearchReplies :
    LET gone == [S EXCEPT !.searchCalls = RemoveAt(@, i)]
        s1 == Render(S, SetState(gone, searchResolved(gone, data)))
    IN  Commit(s1) /\ Observe("searchOk", data, s1)

\* the i-th search call in flight fails (non-2xx status or exception)
SearchFailure ==
  \E i \in 1..Len(searchCalls) :
    LET gone == [S EXCEPT !.searchCalls = RemoveAt(@, i)]
        s1 == Render(S, SetState(gone, searchRejected(gone)))
    IN  Commit(s1) /\ Observe("searchFail", NoReply, s1)

Next ==
  \/ InputChange
  \/ KeyArrowDown
  \/ KeyArrowUp
  \/ KeyEnter
  \/ KeyEscape
  \/ SuggestionClick
  \/ InputFocus
  \/ TimerFire
  \/ SuggestSuccess
  \/ SuggestFailure
  \/ SearchSuccess
  \/ SearchFailure

\* the component's life while it is mounted
Spec == Init /\ [][Next]_vars

\* the component is unmounted: the effect's cleanup runs, and no event
\* reaches the component afterwards
Unmount ==
  LET s1 == unmount(S)
  IN  /\ mounted
      /\ mounted' = FALSE
      /\ Commit(s1)
      /\ ObserveStep("unmount", NoReply, s1)
      /\ UNCHANGED staleCalls

LifeNext ==
  \/ Next
  \/ Unmount

\* the component's life with its unmount: timers that are still pending
\* fire and calls in flight settle after it
LifeSpec == Init /\ [][LifeNext]_vars

(* ------------------------------- claims -------------------------------- *)

IsBlank(t) == Trim(t) = <<>>

\* a search call was issued by the step
SearchStarted == Len(searchCalls') = Len(searchCalls) + 1

\* a suggest call was issued by the step
SuggestStarted == Len(suggestCalls') = Len(suggestCalls) + 1

\* C1: in every state where searchPerformed is true, no suggest response is
\* applied to the suggestion list or shows the list again, also when the call
\* was in flight when the explicit search set the flag.
C1_SuppressionInvariant ==
  searchPerformed => ev.kind # "suggestOk"

\* C2: after any run of query changes with no timer firing in between, at most
\* one suggest call is made: at most one timer is pending, it holds the
\* current query, at most one suggest call is issued until the query changes
\* again, and that call carries the query current when the timer fires.
C2_DebounceCoalescing ==
  /\ Cardinality(timers) <= 1
  /\ \A t \in timers : t.query = query
  /\ fetchesSinceEdit <= 1
  /\ ev.kind = "timerFetch" =>
       /\ suggestCalls # <<>>
       /\ suggestCalls[Len(suggestCalls)] = query

\* C2 witness: an edit arrived while the timer of the previous edit was
\* pending and cancelled it; one timer, for the new query, is pending and no
\* suggest call was made
C2_Witness ==
  /\ ev.kind = "input"
  /\ ev.cancelled
  /\ Cardinality(timers) = 1
  /\ fetchesSinceEdit = 0
  /\ suggestCalls = <<>>

\* C3: right after a search fails the fixed message is set, loading is
\* cleared, and neither the results nor the stats of an earlier search are
\* displayed.
C3_FailureReplacesResults ==
  ev.kind = "searchFail" =>
    /\ error = SearchFailedMessage
    /\ ~LoadingShown
    /\ ~ResultsShown
    /\ ~StatsShown

\* C4: the selection index is -1 or an index into the current suggestion list.
C4_SelectionIndexValid ==
  \/ selectedSuggestionIndex = -1
  \/ /\ 0 <= selectedSuggestionIndex
     /\ selectedSuggestionIndex < Len(suggestions)

\* C5: every step that replaces the suggestion list, by a suggest response or
\* by the clearing on a query that became empty, leaves the selection index
\* at -1.
C5_SelectionReset ==
  [][ (\/ ev'.kind = "suggestOk"
       \/ (query' # query /\ IsBlank(query')))
      => selectedSuggestionIndex' = -1 ]_vars

\* C6: searchPerformed is set by every search that is started, cleared by
\* every input change, and changed by no other step.
C6_FlagSetAndCleared ==
  [][ /\ SearchStarted => searchPerformed'
      /\ ev'.kind = "input" => ~searchPerformed'
      /\ searchPerformed' # searchPerformed =>
           \/ ev'.kind = "input"
           \/ /\ ev'.kind \in {"enterSearch", "enterCommit", "click"}
              /\ SearchStarted ]_vars

\* C6 witness: a suggestion was committed with Enter; its query update
\* started a timer and the flag is set
C6_Witness ==
  /\ ev.kind = "enterCommit"
  /\ searchPerformed
  /\ timers # {}

\* C7: a timer that fires while searchPerformed is true issues no suggest
\* call and changes no state, and every suggest call is issued with the flag
\* false.
C7_FlagSuppressesFetch ==
  [][ /\ (ev'.kind \in {"timerSkip", "timerFetch"} /\ searchPerformed) =>
           UNCHANGED << appvars, suggestCalls, searchCalls, debounceTimer >>
      /\ SuggestStarted => (~searchPerformed /\ ~searchPerformed') ]_vars

\* C7 witness: a timer fired with the flag set
C7_Witness ==
  /\ ev.kind = "timerSkip"
  /\ searchPerformed
  /\ ~IsBlank(query)

\* C8: no suggest call and no search call in flight carries a query that is
\* empty after trimming.
C8_NoBlankRequest ==
  /\ \A i \in 1..Len(suggestCalls) : ~IsBlank(suggestCalls[i])
  /\ \A i \in 1..Len(searchCalls) : ~IsBlank(searchCalls[i])

\* C8 witness: a whitespace-only suggestion was clicked and no search call
\* went out
C8_Witness ==
  /\ ev.kind = "click"
  /\ query = <<SP>>
  /\ searchCalls = <<>>

\* C9: an explicit search with a query that is empty after trimming issues no
\* call and changes nothing: Enter on such a query leaves the whole state as
\* it is, and the search a commit of such a suggestion invokes leaves
\* loading, error, results, stats, selection index and flag as they are.
C9_EmptyQueryGuard ==
  [][ /\ (ev'.kind = "enterSearch" /\ IsBlank(query)) =>
           UNCHANGED << appvars, debounceTimer, timers,
                        suggestCalls, searchCalls >>
      /\ (ev'.kind \in {"click", "enterCommit"} /\ IsBlank(query')) =>
           UNCHANGED << loading, error, results, searchStats,
                        selectedSuggestionIndex, searchPerformed,
                        suggestCalls, searchCalls >> ]_vars

\* C9 witness: Enter was pressed on a whitespace-only query while an error
\* message and results were held
C9_Witness ==
  /\ ev.kind = "enterSearch"
  /\ IsBlank(query)
  /\ error # Null
  /\ results # <<>>

\* C10: once two overlapping searches have both settled, hits, stats and
\* error message are those of the response that resolved last: after a last
\* success the hits and stats are its own and no error is shown, after a last
\* failure the fixed message is shown.
C10_LastResponseWins ==
  (reentrant /\ searchCalls = <<>>) =>
    /\ ev.kind = "searchOk" =>
         /\ results = ev.reply.hits
         /\ searchStats = [took |-> ev.reply.took,
                           count |-> Len(ev.reply.hits), present |-> TRUE]
         /\ error = Null
    /\ ev.kind = "searchFail" =>
         /\ error = SearchFailedMessage
         /\ ~loading

\* C11: right after a search call settles, by success or by failure, loading
\* is false, and when no search call is in flight any more loading is false.
C11_LoadingClears ==
  /\ ev.kind \in {"searchOk", "searchFail"} => ~loading
  /\ searchCalls = <<>> => ~loading

\* C11 witness: the last of two overlapping searches failed and nothing is
\* in flight
C11_Witness ==
  /\ ev.kind = "searchFail"
  /\ reentrant
  /\ searchCalls = <<>>
  /\ ~loading

\* the selection index is -1 or an index into the list
IndexInRange ==
  /\ -1 <= selectedSuggestionIndex
  /\ selectedSuggestionIndex < Len(suggestions)

\* C12 as stated: with the list shown, of length L >= 1, and the index in
\* range, ArrowDown sets the index to (index + 1) mod L and ArrowUp sets it
\* to (index - 1 + L) mod L, also from -1.
C12_WrapAsStated ==
  [][ (DropdownShown /\ IndexInRange) =>
        /\ ev'.kind = "arrowDown" =>
             selectedSuggestionIndex' =
               (selectedSuggestionIndex + 1) % Len(suggestions)
        /\ ev'.kind = "arrowUp" =>
             selectedSuggestionIndex' =
               (selectedSuggestionIndex - 1 + Len(suggestions))
                 % Len(suggestions) ]_vars

\* C12 amended: ArrowDown sets the index to (index + 1) mod L; ArrowUp sets
\* it to (index - 1 + L) mod L from an index >= 0 and to L - 1 from -1; the
\* list and its visibility stay as they are.
C12_SelectionWrap ==
  [][ (DropdownShown /\ IndexInRange) =>
        /\ ev'.kind = "arrowDown" =>
             selectedSuggestionIndex' =
               (selectedSuggestionIndex + 1) % Len(suggestions)
        /\ ev'.kind = "arrowUp" =>
             selectedSuggestionIndex' =
               IF selectedSuggestionIndex = -1
               THEN Len(suggestions) - 1
               ELSE (selectedSuggestionIndex - 1 + Len(suggestions))
                      % Len(suggestions)
        /\ ev'.kind \in {"arrowDown", "arrowUp"} =>
             UNCHANGED << suggestions, showSuggestions >> ]_vars

\* C12 witness: ArrowDown was pressed with a list of two entries shown and
\* wrapped to the first entry or stepped onto it from -1
C12_Witness ==
  /\ ev.kind = "arrowDown"
  /\ ev.shown
  /\ Len(suggestions) = 2
  /\ selectedSuggestionIndex = 0

\* the step committed the suggestion text t: by Enter on the highlighted
\* entry, or by a click on an entry of the list
Committed(t) ==
  \/ /\ ev'.kind = "enterCommit"
     /\ t = suggestions[selectedSuggestionIndex + 1]
  \/ /\ ev'.kind = "click"
     /\ \E i \in 1..Len(suggestions) : t = suggestions[i]

\* what both routes of a commit of t leave: the query is t, the list is
\* hidden, results, stats and calls for suggestions are as before
CommitFrame(t) ==
  /\ query' = t
  /\ ~showSuggestions'
  /\ UNCHANGED << results, searchStats, suggestCalls >>

\* C13 as stated: every commit of a suggestion, by Enter or by click, sets
\* the query to its text, hides the list and starts a search with that text.
C13_CommitAsStated ==
  [][ ev'.kind \in {"enterCommit", "click"} =>
        /\ Committed(query')
        /\ CommitFrame(query')
        /\ searchCalls' = Append(searchCalls, query') ]_vars

\* C13 amended: every commit of a suggestion, by Enter or by click, sets the
\* query to its text and hides the list; it starts a search with exactly that
\* text, with the same resets on both routes, unless the text is empty after
\* trimming, in which case no search is started and loading, error, index
\* and flag stay as they are.
C13_CommitSuggestion ==
  [][ ev'.kind \in {"enterCommit", "click"} =>
        /\ Committed(query')
        /\ CommitFrame(query')
        /\ IF IsBlank(query')
           THEN UNCHANGED << searchCalls, loading, error,
                             selectedSuggestionIndex, searchPerformed >>
           ELSE /\ searchCalls' = Append(searchCalls, query')
                /\ loading'
                /\ error' = Null
                /\ suggestions' = <<>>
                /\ selectedSuggestionIndex' = -1
                /\ searchPerformed' ]_vars

\* C13 witness: the second entry of the list was clicked; the query is its
\* text and the search call in flight carries it
C13_Witness ==
  /\ ev.kind = "click"
  /\ ev.shown
  /\ query = <<"b">>
  /\ ~showSuggestions
  /\ searchCalls = << <<"b">> >>

(* ---------------------- truncateText on its own ------------------------ *)

\* n times the character c
Repeat(c, n) == [i \in 1..n |-> c]

\* the ends a hit's content can have
TextEnds == { <<>>, <<"y">>, <<".">>, Ellipsis }

\* the contents truncateText is given: every length from 0 to beyond
\* maxLength, with and without dots at the end
Texts ==
  { Repeat("x", n) \o e : n \in 0..(DefaultMaxLength + MaxExtra),
                          e \in TextEnds }

\* the component as mounted, about to render a hit whose content is any text
TruncInit ==
  /\ AppInit
  /\ text \in Texts
  /\ truncated = <<>>

\* the render of a result card, {truncateText(hit.content)}: applied to the
\* content first and to its own result next
Truncate ==
  /\ Len(truncated) < 2
  /\ truncated' = Append(truncated,
                         truncateText(IF truncated = <<>> THEN text
                                      ELSE truncated[Len(truncated)],
                                      DefaultMaxLength))
  /\ UNCHANGED << query, suggestions, results, loading, showSuggestions,
                  selectedSuggestionIndex, searchStats, error, debounceTimer,
                  searchPerformed, timers, suggestCalls, searchCalls,
                  mounted, ev, fetchesSinceEdit, reentrant, staleCalls,
                  text >>

TruncNext == Truncate

TruncSpec == TruncInit /\ [][TruncNext]_vars

\* C14: truncateText returns a text of at most maxLength characters as it
\* is, returns the first maxLength characters followed by the marker for a
\* longer one, and applied to its own result returns that result.
C14_TruncateIdempotent ==
  /\ Len(truncated) >= 1 =>
       /\ Len(text) <= DefaultMaxLength => truncated[1] = text
       /\ Len(text) > DefaultMaxLength =>
            /\ Len(truncated[1]) = DefaultMaxLength + Len(Ellipsis)
            /\ \A i \in 1..DefaultMaxLength : truncated[1][i] = text[i]
            /\ \A i \in 1..Len(Ellipsis) :
                 truncated[1][DefaultMaxLength + i] = Ellipsis[i]
  /\ Len(truncated) = 2 => truncated[2] = truncated[1]

\* C14 witness: a text longer than maxLength was truncated twice
C14_Witness ==
  /\ Len(text) > DefaultMaxLength
  /\ Len(truncated) = 2
  /\ Len(truncated[2]) > DefaultMaxLength

\* C15: the response of a suggest call is never applied after the response
\* of a call that was issued later: no step applies the response of a stale
\* call (the count of stale calls never drops when a response is applied).
C15_NoStaleSuggestions ==
  [][ ev'.kind = "suggestOk" => staleCalls' >= staleCalls ]_vars

\* C16: loading is true whenever a search call is in flight.
C16_LoadingWhileInFlight ==
  searchCalls # <<>> => loading

\* C17: whenever the query is empty after trimming, the suggestion list is
\* empty and hidden.
C17_BlankQueryNoSuggestions ==
  IsBlank(query) => (suggestions = <<>> /\ ~showSuggestions)

\* C18: whenever stats are present their count is the number of hits held as
\* results, and results and stats change only in the step of a successful
\* search response.
C18_StatsMatchResults ==
  /\ [](searchStats.present => searchStats.count = Len(results))
  /\ [][ (results' # results \/ searchStats' # searchStats) =>
           ev'.kind = "searchOk" ]_vars

\* C18 witness: of two overlapping searches one failed and one brought a
\* hit; the stats count it
C18_Witness ==
  /\ reentrant
  /\ searchCalls = <<>>
  /\ error # Null
  /\ searchStats.present
  /\ searchStats.count = 1

\* C19: Enter with the list hidden, or with no entry highlighted, starts a
\* search with the current query text and leaves the query as it is; on a
\* query that is empty after trimming it changes nothing.
C19_EnterSearchesQuery ==
  [][ (/\ ev'.kind \in {"enterSearch", "enterCommit"}
       /\ (~showSuggestions \/ selectedSuggestionIndex = -1)) =>
        IF IsBlank(query)
        THEN UNCHANGED << appvars, debounceTimer, timers,
                          suggestCalls, searchCalls >>
        ELSE /\ searchCalls' = Append(searchCalls, query)
             /\ query' = query
             /\ loading'
             /\ searchPerformed'
             /\ ~showSuggestions' ]_vars

\* C19 witness: Enter was pressed with the list shown and no entry
\* highlighted, and the search for the query is in flight
C19_Witness ==
  /\ ev.kind = "enterSearch"
  /\ ev.shown
  /\ selectedSuggestionIndex = -1
  /\ searchCalls = << query >>
  /\ loading

\* C20: Escape hides the list and sets the index to -1, and leaves the
\* query, the results, stats, loading, error and flag, the list itself and
\* whatever is pending or in flight as they are.
C20_EscapeHides ==
  [][ ev'.kind = "escape" =>
        /\ ~showSuggestions'
        /\ selectedSuggestionIndex' = -1
        /\ UNCHANGED << query, suggestions, results, searchStats, loading,
                        error, searchPerformed, debounceTimer, timers,
                        suggestCalls, searchCalls >> ]_vars

\* C20 witness: Escape was pressed with the list shown, while results were
\* held and a search was in flight
C20_Witness ==
  /\ ev.kind = "escape"
  /\ ev.shown
  /\ ~showSuggestions
  /\ suggestions # <<>>
  /\ results # <<>>
  /\ loading

\* C21: the step in which a suggest call fails leaves the suggestion list, its
\* visibility and the selection index as they were, and leaves the error
\* message as it was (it sets no search error); nothing else of the
\* component's state changes either.
C21_SuggestFailureSilent ==
  [][ ev'.kind = "suggestFail" =>
        /\ UNCHANGED << suggestions, showSuggestions, selectedSuggestionIndex,
                        error >>
        /\ UNCHANGED << query, results, searchStats, loading, searchPerformed,
                        debounceTimer, timers, searchCalls >> ]_vars

\* C21 witness: a suggest call failed while the dropdown was shown with an
\* entry highlighted and no error displayed, and they are still so
C21_Witness ==
  /\ ev.kind = "suggestFail"
  /\ ev.shown
  /\ DropdownShown
  /\ selectedSuggestionIndex >= 0
  /\ error = Null

\* the Failed state: the error message is set and no search is in flight
Failed == error # Null /\ searchCalls = <<>>

\* C22: a search that starts in the Failed state clears the error message and
\* sets loading; when a search that overlapped no other search succeeds, the
\* step ends with its hits held as results, loading cleared and no error; an
\* edit of the query in the Failed state clears the flag and leaves exactly
\* one pending timer, for the new query, unless the new query is blank.
C22_FailureNotFatal ==
  [][ /\ (Failed /\ SearchStarted) =>
          (error' = Null /\ loading' /\ searchCalls' # <<>>)
      /\ (ev'.kind = "searchOk" /\ Len(searchCalls) = 1 /\ ~reentrant) =>
          /\ error' = Null
          /\ results' = ev'.reply.hits
          /\ ~loading'
          /\ searchCalls' = <<>>
      /\ (Failed /\ ev'.kind = "input") =>
          /\ ~searchPerformed'
          /\ IF IsBlank(query')
             THEN timers' = {}
             ELSE timers' = {[id |-> debounceTimer', query |-> query']} ]_vars

\* C22 witness: Enter started a search while the error message of a failed
\* search was displayed; the message is gone and the search is in flight
C22_Witness ==
  /\ ev.kind = "enterSearch"
  /\ ev.hadError
  /\ ~reentrant
  /\ error = Null
  /\ loading
  /\ searchCalls = << query >>

\* C23: at most one timer is pending and it is the one debounceTimer.current
\* names; a step that changes the query leaves none of the timers that were
\* pending before it, and only a timer for the new query after it; a timer
\* that fires was set for the query of the current render.
C23_SingleTimer ==
  /\ [](/\ Cardinality(timers) <= 1
        /\ \A t \in timers : t.id = debounceTimer)
  /\ [][ /\ query' # query =>
               /\ timers \cap timers' = {}
               /\ \A t \in timers' : t.query = query'
         /\ ev'.kind \in {"timerFetch", "timerSkip"} =>
               /\ timers' = {}
               /\ \A t \in timers : t.query = query ]_vars

\* C23 witness: the click on a suggestion changed the query while the timer
\* of an edit was pending and cancelled it; the one timer pending is the one
\* of the committed text
C23_Witness ==
  /\ ev.kind = "click"
  /\ ev.cancelled
  /\ timers = {[id |-> debounceTimer, query |-> query]}

\* C24: the unmount leaves no timer pending, so in the unmounted component
\* no timer is pending, no timer callback runs and no suggest call is issued.
C24_TeardownCancels ==
  /\ [](~mounted => timers = {})
  /\ [][ /\ ev'.kind = "unmount" => (~mounted' /\ timers' = {})
         /\ ~mounted =>
               /\ ev'.kind \notin {"timerFetch", "timerSkip"}
               /\ ~SuggestStarted ]_vars

\* C24 witness: the component was unmounted while the timer of an edit was
\* pending; the timer was cancelled and no suggest call was made
C24_Witness ==
  /\ ~mounted
  /\ ev.kind = "unmount"
  /\ ev.cancelled
  /\ ~IsBlank(query)
  /\ timers = {}
  /\ suggestCalls = <<>>

====
